---- MODULE Spec2Model ----
(***************************************************************************)
(* Keyboard State Controller (KeyboardControllerClass, KeyboardController. *)
(* ts): the singleton that turns focus / viewport / window / orientation / *)
(* virtual-keyboard signals into a debounced keyboard state and emits the  *)
(* keyboardWill* / keyboardDid* lifecycle events.                          *)
(*                                                                         *)
(* The browser around the controller (geometry, focus, timers, the DOM     *)
(* listener tables) is part of the state: timers are sets of pending       *)
(* callbacks that the event loop runs one at a time.                       *)
(***************************************************************************)
EXTENDS Integers, Sequences, FiniteSets, TLC

(***************************************************************************)
(* Bounds of the model and the sets the environment draws its samples from *)
(***************************************************************************)
\* most keyboardDid* timers pending at once
MaxDidTimers == 1
\* most keyboardDid* timers pending at once where a transition may supersede
\* the one before it
MaxSupersededTimers == 2
\* most 500 ms orientation timers pending at once
MaxOrientationTimers == 1
\* most anonymous geometrychange listeners left on navigator.virtualKeyboard
MaxGeometryListeners == 2
\* most unsubscribe functions a consumer holds
MaxUnsubscribes == 3
\* most calls of one unsubscribe function
MaxCalls == 2
\* the last tick of the clock
MaxClock == 2
\* most listeners registered that call back into the controller
MaxReentrant == 2
\* the last performance.now() of a frame, in ms
MaxFrameTime == 500

\* window.innerHeight when the controller is constructed
StartHeights == {800}
\* window.innerHeight samples (portrait, landscape)
WindowHeights == {400, 800}
\* window.visualViewport.height samples
VisualHeights == {300, 800}
\* --keyboard-inset-height samples
InsetHeights == {0, 80}
\* <<top, bottom>> of the --safe-area-inset-* variables
SafeAreas == {<<47, 34>>}
\* document.activeElement, by tag name
Elements == {"BODY", "INPUT"}
\* <<platform, window.visualViewport exists, 'virtualKeyboard' in navigator>>
Devices == {<<"ios", TRUE, FALSE>>,
            <<"android", FALSE, TRUE>>, <<"android", TRUE, FALSE>>,
            <<"android", FALSE, FALSE>>, <<"web", TRUE, TRUE>>}
\* the Android browsers: every combination of the two viewport APIs
AndroidDevices == {<<"android", vv, vk>> : vv \in BOOLEAN, vk \in BOOLEAN}
\* ms between two animation frames
FrameIntervals == {125}
\* animationRef.current of an animation under way: start and target height
\* in pixels, duration and startTime in ms
AnimationStarts == {0, 100, 500}
AnimationTargets == {0, 300, 500}
AnimationTimes == {250, 500}
StartTimes == {0, 25, 150}
\* listeners that call back into the controller while they are dispatched
\* to, by the method they call, and the event types they are registered for
\* (what getState() returns to a listener is the seen field of every event)
ReentrantListeners == {"callsDismiss", "callsAddListener", "callsRemoveListener"}
ReentrantTypes == {"keyboardWillShow", "keyboardDidShow"}
\* substrings of navigator.userAgent the detectors can tell apart, and the
\* user agents made of them
AgentTokens == {"iPad", "iPhone", "iPod", "Android", "android", "Macintosh", "Windows"}
UserAgents == {<<>>} \cup {<<a>> : a \in AgentTokens}
                    \cup {<<a, b>> : a \in AgentTokens, b \in AgentTokens}
\* the listener functions the hooks register
ListenerIds == {"handleKeyboardEvent"}
WillTypes == {"keyboardWillShow", "keyboardWillHide"}
DidTypes == {"keyboardDidShow", "keyboardDidHide"}
EventTypes == WillTypes \cup DidTypes

VARIABLES
    \* ---- environment (browser) ----
    userAgent,             \* navigator.userAgent, as the tokens it contains
    platform,              \* what navigator.userAgent classifies to
    hasVisualViewport,     \* window.visualViewport exists
    hasVirtualKeyboard,    \* 'virtualKeyboard' in navigator
    innerHeight,           \* window.innerHeight
    visualHeight,          \* window.visualViewport.height
    insetHeight,           \* parseInt(--keyboard-inset-height)
    activeElement,         \* document.activeElement (tag)
    envSafeArea,           \* safe-area insets the style sheet reports
    inlineSafeArea,        \* --safe-area-inset-* written on documentElement.style
    cssVars,               \* --keyboard-height / --keyboard-visible / --available-height
    overlaysContent,       \* navigator.virtualKeyboard.overlaysContent
    domAttached,           \* the six named DOM handlers are registered
    geometryListeners,     \* anonymous geometrychange listeners registered
    activationThrows,      \* assigning navigator.virtualKeyboard.overlaysContent throws
    \* ---- controller fields ----
    isInitialized,
    initialViewportHeight,
    timeoutId,             \* "null", or the handle of a "live" / "stale" timer
    currentState,
    configDuration,        \* config.animation.duration (0: undefined)
    listeners,             \* event type -> listeners in insertion order
    \* ---- event loop ----
    debounceTimers,        \* pending 100 ms recompute timers
    orientationTimers,     \* pending 500 ms recapture timers
    didTimers,             \* pending keyboardDid* timers, in creation order
    now,                   \* Date.now(), in ticks
    \* ---- consumers ----
    unsubscribes,          \* the functions addListener returned to a consumer that
                           \* keeps them, with the number of calls of each
    \* ---- one useKeyboardAnimation hook instance ----
    mounted,               \* the instance's effect has run
    animationState,        \* the value of useState: height and progress, in thousandths
    animation,             \* animationRef.current (rafId: "null", "live" or "stale")
    depsHeight,            \* animationState.height of the render whose animate and
                           \* handleKeyboardEvent are the registered ones
    performanceNow,        \* performance.now() and the time of the last frame, in ms
    requested,             \* the type of the event of the last animate call, or "none"
    tickTime,              \* currentTime of the last tick of the animation, or -1
    \* ---- utilities ----
    detected,              \* what utils/platform detectPlatform() returned, or "none"
    \* ---- observation ----
    emitted,               \* events dispatched by the last step
    collapsed,             \* the current debounce window replaced an earlier timer
    initializeThrew,       \* the last call of initialize() ended in an exception
    ran                    \* the timer callback the last step ran, or "none"

envVars == <<platform, hasVisualViewport, hasVirtualKeyboard, innerHeight, visualHeight,
             insetHeight, activeElement, envSafeArea>>
styleVars == <<inlineSafeArea, cssVars, overlaysContent>>
hookVars == <<domAttached, geometryListeners>>
ctlVars == <<isInitialized, initialViewportHeight, currentState, configDuration, listeners>>
debounceVars == <<timeoutId, debounceTimers, collapsed>>
timerVars == <<orientationTimers, didTimers>>
faultVars == <<activationThrows, initializeThrew>>
agentVars == <<userAgent, detected>>
animVars == <<mounted, animationState, animation, depsHeight, performanceNow, requested,
              tickTime>>
vars == <<envVars, styleVars, hookVars, ctlVars, debounceVars, timerVars, now,
          unsubscribes, faultVars, animVars, agentVars, emitted, ran>>

Max(a, b) == IF a >= b THEN a ELSE b

(***************************************************************************)
(* Pure helpers of the controller                                          *)
(***************************************************************************)
\* isInputElement: INPUT, TEXTAREA (contentEditable elements are not sampled)
isInputElement(element) == element \in {"INPUT", "TEXTAREA"}

\* getElementId: the 32-bit string hash of tagName + id + className, for
\* elements without id and class
getElementId(element) ==
    CASE element = "BODY" -> 2044322
      [] element = "INPUT" -> 69820330

\* getSafeAreaInsets: the inline custom properties win over the style sheet's
getSafeAreaInsets ==
    LET s == IF inlineSafeArea = <<>> THEN envSafeArea ELSE inlineSafeArea
    IN  [top |-> s[1], right |-> 0, bottom |-> s[2], left |-> 0]

\* statesEqual comparing the transition type as well
statesEqual_WithType(state1, state2) ==
    /\ state1.isVisible = state2.isVisible
    /\ state1.height = state2.height
    /\ state1.target = state2.target
    /\ state1.type = state2.type

\* statesEqual
statesEqual(state1, state2) ==
    /\ state1.isVisible = state2.isVisible
    /\ state1.height = state2.height
    /\ state1.target = state2.target


\* the height branch of calculateKeyboardState with the iOS correction applied
\* whether or not an input is focused
keyboardHeightOf_Unfocused(p, isInputFocused) ==
    LET visualDiff == Max(0, initialViewportHeight - visualHeight)
        windowDiff == Max(0, initialViewportHeight - innerHeight)
        heightDiff == initialViewportHeight - innerHeight
    IN  CASE p = "android" ->
                IF hasVirtualKeyboard
                THEN IF insetHeight = 0 /\ hasVisualViewport THEN visualDiff ELSE insetHeight
                ELSE IF hasVisualViewport THEN visualDiff ELSE windowDiff
          [] p = "ios" ->
                IF hasVisualViewport
                THEN IF visualDiff < 50 /\ heightDiff > 50
                     THEN heightDiff
                     ELSE visualDiff
                ELSE windowDiff
          [] OTHER ->
                IF hasVisualViewport THEN visualDiff ELSE windowDiff

\* the height branch of calculateKeyboardState without Math.max(0, ...)
keyboardHeightOf_Unclamped(p, isInputFocused) ==
    LET visualDiff == initialViewportHeight - visualHeight
        windowDiff == initialViewportHeight - innerHeight
        heightDiff == initialViewportHeight - innerHeight
    IN  CASE p = "android" ->
                IF hasVirtualKeyboard
                THEN IF insetHeight = 0 /\ hasVisualViewport THEN visualDiff ELSE insetHeight
                ELSE IF hasVisualViewport THEN visualDiff ELSE windowDiff
          [] p = "ios" ->
                IF hasVisualViewport
                THEN IF isInputFocused /\ visualDiff < 50 /\ heightDiff > 50
                     THEN heightDiff
                     ELSE visualDiff
                ELSE windowDiff
          [] OTHER ->
                IF hasVisualViewport THEN visualDiff ELSE windowDiff

\* the height branch of calculateKeyboardState
keyboardHeightOf(p, isInputFocused) ==
    LET visualDiff == Max(0, initialViewportHeight - visualHeight)
        windowDiff == Max(0, initialViewportHeight - innerHeight)
        heightDiff == initialViewportHeight - innerHeight
    IN  CASE p = "android" ->
                IF hasVirtualKeyboard
                THEN IF insetHeight = 0 /\ hasVisualViewport THEN visualDiff ELSE insetHeight
                ELSE IF hasVisualViewport THEN visualDiff ELSE windowDiff
          [] p = "ios" ->
                IF hasVisualViewport
                THEN IF isInputFocused /\ visualDiff < 50 /\ heightDiff > 50
                     THEN heightDiff
                     ELSE visualDiff
                ELSE windowDiff
          [] OTHER ->
                IF hasVisualViewport THEN visualDiff ELSE windowDiff

\* isVisibleOf without the height test
isVisibleOf_FocusOnly(p, keyboardHeight, isInputFocused) == isInputFocused

\* isVisibleOf with the 50 px threshold on every platform
isVisibleOf_OneThreshold(p, keyboardHeight, isInputFocused) ==
    keyboardHeight > 50 /\ isInputFocused

\* isVisibleOf without the focus test
isVisibleOf_HeightOnly(p, keyboardHeight, isInputFocused) ==
    IF p = "android" THEN keyboardHeight > 100 ELSE keyboardHeight > 50

\* the isVisible lines of calculateKeyboardState
isVisibleOf(p, keyboardHeight, isInputFocused) ==
    IF p = "android"
    THEN keyboardHeight > 100 /\ isInputFocused
    ELSE keyboardHeight > 50 /\ isInputFocused

\* calculateKeyboardState returning the default platform instead of the
\* current state's
calculateKeyboardState_DefaultPlatform ==
    LET p == currentState.keyboard.platform
        isInputFocused == isInputElement(activeElement)
        keyboardHeight == keyboardHeightOf(p, isInputFocused)
    IN  [isVisible |-> isVisibleOf(p, keyboardHeight, isInputFocused),
         height |-> keyboardHeight,
         duration |-> IF configDuration = 0 THEN 250 ELSE configDuration,
         timestamp |-> now,
         target |-> getElementId(activeElement),
         type |-> "stable",
         platform |-> "web"]

\* calculateKeyboardState: the state the environment classifies to right now
calculateKeyboardState ==
    LET p == currentState.keyboard.platform
        isInputFocused == isInputElement(activeElement)
        keyboardHeight == keyboardHeightOf(p, isInputFocused)
    IN  [isVisible |-> isVisibleOf(p, keyboardHeight, isInputFocused),
         height |-> keyboardHeight,
         duration |-> IF configDuration = 0 THEN 250 ELSE configDuration,
         timestamp |-> now,
         target |-> getElementId(activeElement),
         type |-> "stable",
         platform |-> p]

\* calculateAvailableHeight
calculateAvailableHeight(keyboardState) ==
    LET safeArea == getSafeAreaInsets
        windowHeight == IF hasVisualViewport /\ visualHeight # 0
                        THEN visualHeight ELSE innerHeight
    IN  windowHeight - safeArea.top - safeArea.bottom
            - (IF keyboardState.isVisible THEN keyboardState.height ELSE 0)

\* transitionType with every change typed 'stable'
transitionType_AlwaysStable(previousState, newState) == "stable"

\* transitionType with the two branches exchanged
transitionType_Swapped(previousState, newState) ==
    IF ~previousState.isVisible /\ newState.isVisible THEN "closing"
    ELSE IF previousState.isVisible /\ ~newState.isVisible THEN "opening"
    ELSE "stable"

\* transitionType testing the new state only
transitionType_NewStateOnly(previousState, newState) ==
    IF newState.isVisible THEN "opening" ELSE "closing"

\* the transition type updateKeyboardState assigns to a changed state
transitionType(previousState, newState) ==
    IF ~previousState.isVisible /\ newState.isVisible THEN "opening"
    ELSE IF previousState.isVisible /\ ~newState.isVisible THEN "closing"
    ELSE "stable"

\* Array.push in the place of Set.add: one entry per call
setAdd_Array(set, listener) == Append(set, listener)

\* Set.add: a Set keeps one entry per listener, in insertion order
setAdd(set, listener) ==
    IF \E i \in 1..Len(set) : set[i] = listener THEN set ELSE Append(set, listener)

\* Set.delete
setDelete(set, listener) == SelectSeq(set, LAMBDA l : l # listener)

\* calling a listener: the listener of useKeyboardHandler calls the handlers
\* of the hook's config, and the sampled config's onKeyboardEvent throws
throws(listener) == listener = "onKeyboardEvent"

\* the listener called outside any try statement: its exception leaves forEach
tryCatch_Uncaught(threw) == threw

\* try { listener(event) } catch (error) { console.error(...) }: whether an
\* exception of the listener leaves the statement
tryCatch(threw) == FALSE

\* what the Set holds after the listener was called for an event of its type:
\* the sampled listeners that call back into the controller are
\* callsAddListener (addListener(event.type, handleKeyboardEvent)) and
\* callsRemoveListener (removeListener(event.type, itself)); the others
\* leave the Set alone
registryAfter(set, listener) ==
    CASE listener = "callsAddListener" -> setAdd(set, "handleKeyboardEvent")
      [] listener = "callsRemoveListener" -> setDelete(set, listener)
      [] OTHER -> set

\* Set.forEach over a Set its callbacks may change: the listeners called, in
\* order, up to one whose exception leaves the callback, the Set afterwards
\* and whether a listener called dismiss(). An entry added during the walk
\* is visited, one deleted before its turn is not.
RECURSIVE forEach(_, _, _)
forEach(set, i, dismissed) ==
    IF i > Len(set)
    THEN [called |-> <<>>, set |-> set, dismissed |-> dismissed]
    ELSE LET listener == set[i]
             after == registryAfter(set, listener)
             blur == dismissed \/ listener = "callsDismiss"
             next == IF i <= Len(after) /\ after[i] = listener THEN i + 1 ELSE i
         IN  IF tryCatch(throws(listener))
             THEN [called |-> <<listener>>, set |-> after, dismissed |-> blur]
             ELSE [forEach(after, next, blur) EXCEPT !.called = <<listener>> \o @]

\* emitEvent: the event (a copy of the state passed in), the listeners
\* registered for it (to) and called (called), in order, what getState()
\* returns to them meanwhile, and whether an exception leaves emitEvent
emitEvent(type, state) ==
    LET called == forEach(listeners[type], 1, FALSE).called
    IN  [type |-> type, state |-> state, timestamp |-> now, seen |-> currentState,
         to |-> listeners[type], called |-> called,
         thrown |-> called # <<>> /\ tryCatch(throws(called[Len(called)]))]

\* completionTimers without the keyboardDidHide branch
completionTimers_ShowOnly(timers, newState) ==
    IF newState.type = "opening"
    THEN Append(timers, [type |-> "keyboardDidShow", state |-> newState,
                         duration |-> newState.duration])
    ELSE timers

\* a keyboardDid* timer set after every commit, by the new visibility
completionTimers_EveryCommit(timers, newState) ==
    Append(timers, [type |-> IF newState.isVisible THEN "keyboardDidShow"
                             ELSE "keyboardDidHide",
                    state |-> newState, duration |-> newState.duration])

\* the setTimeout calls that end updateKeyboardState
completionTimers(timers, newState) ==
    IF newState.type = "opening"
    THEN Append(timers, [type |-> "keyboardDidShow", state |-> newState,
                         duration |-> newState.duration])
    ELSE IF newState.type = "closing"
    THEN Append(timers, [type |-> "keyboardDidHide", state |-> newState,
                         duration |-> newState.duration])
    ELSE timers

\* clearTimeout left out: the earlier timer stays pending
clearTimeout_Missing(id, pending) == pending

\* clearTimeout(this.timeoutId) on the count of pending debounce timers
clearTimeout(id, pending) == IF id = "live" THEN pending - 1 ELSE pending

\* scheduleStateUpdate on the handle id and the count of pending timers
reschedule(id, pending) ==
    [timeoutId |-> "live", debounceTimers |-> clearTimeout(id, pending) + 1,
     collapsed |-> pending > 0]

\* scheduleStateUpdate setting no timer
scheduleStateUpdate_Skipped == UNCHANGED debounceVars

\* scheduleStateUpdate
scheduleStateUpdate ==
    LET timer == reschedule(timeoutId, debounceTimers)
    IN  /\ debounceTimers' = timer.debounceTimers
        /\ timeoutId' = timer.timeoutId
        /\ collapsed' = timer.collapsed

\* a DOM event reaches a named handler only while it is registered
signal(registered) ==
    IF registered THEN scheduleStateUpdate ELSE UNCHANGED debounceVars

(***************************************************************************)
(* Initial state: the singleton right after its constructor ran            *)
(***************************************************************************)
\* RegExp.test of an alternation of literals: some alternative occurs in the
\* user agent
test(alternatives, agent) == \E i \in 1..Len(agent) : agent[i] \in alternatives

\* detectPlatform testing /Android/ before /iPad|iPhone|iPod/
detectPlatform_AndroidFirst(agent) ==
    IF test({"Android"}, agent) THEN "android"
    ELSE IF test({"iPad", "iPhone", "iPod"}, agent) THEN "ios"
    ELSE "web"

\* detectPlatform() of utils/platform
detectPlatform(agent) ==
    IF test({"iPad", "iPhone", "iPod"}, agent) THEN "ios"
    ELSE IF test({"Android"}, agent) THEN "android"
    ELSE "web"

\* KeyboardControllerClass.detectPlatform()
privateDetectPlatform(agent) ==
    IF test({"iPad", "iPhone", "iPod"}, agent) THEN "ios"
    ELSE IF test({"Android"}, agent) THEN "android"
    ELSE "web"

\* the user agent of the sampled device of a platform
agentOf(p) ==
    CASE p = "ios" -> <<"iPhone">>
      [] p = "android" -> <<"Android">>
      [] OTHER -> <<"Windows">>

\* the browser the page runs in: its user agent and which viewport APIs it has
browser(devices) ==
    /\ userAgent \in UserAgents
    /\ \E d \in devices :
          /\ platform = d[1]
          /\ hasVisualViewport = d[2]
          /\ hasVirtualKeyboard = d[3]

constructor ==
    /\ detected = "none"
    /\ platform = privateDetectPlatform(userAgent)
    /\ innerHeight \in StartHeights
    /\ visualHeight = innerHeight
    /\ insetHeight = 0
    /\ activeElement = "BODY"
    /\ envSafeArea \in SafeAreas
    /\ inlineSafeArea = <<>>
    /\ cssVars = <<>>
    /\ overlaysContent = "unset"
    /\ domAttached = FALSE
    /\ geometryListeners = 0
    /\ isInitialized = FALSE
    /\ initialViewportHeight = innerHeight
    /\ timeoutId = "null"
    /\ now = 0
    /\ currentState =
         [keyboard |-> [isVisible |-> FALSE, height |-> 0, duration |-> 0,
                        timestamp |-> now, target |-> 0, type |-> "stable",
                        platform |-> platform],
          safeArea |-> [top |-> envSafeArea[1], right |-> 0,
                        bottom |-> envSafeArea[2], left |-> 0],
          availableHeight |-> innerHeight]
    /\ configDuration = 250
    /\ listeners = [t \in EventTypes |-> <<>>]
    /\ debounceTimers = 0
    /\ orientationTimers = 0
    /\ didTimers = <<>>
    /\ unsubscribes = <<>>
    /\ emitted = <<>>
    /\ collapsed = FALSE
    /\ ran = "none"
    /\ initializeThrew = FALSE

\* useKeyboardAnimation before its first effect: the initial values of
\* useState and useRef
unmounted ==
    /\ mounted = FALSE
    /\ animationState = [height |-> 0, progress |-> 0]
    /\ animation = [startTime |-> 0, startHeight |-> 0, targetHeight |-> 0,
                    duration |-> 250, rafId |-> "null"]
    /\ depsHeight = 0
    /\ performanceNow = 0
    /\ requested = "none"
    /\ tickTime = -1

\* a browser whose navigator.virtualKeyboard, if any, accepts overlaysContent
Init ==
    /\ browser(Devices)
    /\ constructor
    /\ userAgent = agentOf(platform)
    /\ activationThrows = FALSE
    /\ unmounted

(***************************************************************************)
(* Public methods: what each one assigns                                   *)
(***************************************************************************)
\* initialize(config): config is <<>> (no animation key) or <<duration>>
initialize(config) ==
    IF isInitialized
    THEN /\ UNCHANGED <<configDuration, domAttached, overlaysContent, geometryListeners,
                        isInitialized, activationThrows>>
         /\ initializeThrew' = FALSE
    ELSE /\ configDuration' = IF config = <<>> THEN configDuration ELSE config[1]
         /\ domAttached' = TRUE
         /\ UNCHANGED activationThrows
         /\ IF hasVirtualKeyboard /\ activationThrows
            THEN \* the assignment throws: nothing after it runs
                 /\ UNCHANGED <<overlaysContent, geometryListeners, isInitialized>>
                 /\ initializeThrew' = TRUE
            ELSE /\ IF hasVirtualKeyboard
                    THEN IF currentState.keyboard.platform = "android"
                         THEN /\ overlaysContent' = "true"
                              /\ geometryListeners' = geometryListeners + 1
                         ELSE /\ overlaysContent' = "false"
                              /\ UNCHANGED geometryListeners
                    ELSE UNCHANGED <<overlaysContent, geometryListeners>>
                 /\ isInitialized' = TRUE
                 /\ initializeThrew' = FALSE

\* addListener(eventType, listener), for every eventType of a set
addListener(eventTypes, listener) ==
    listeners' = [t \in EventTypes |->
                    IF t \in eventTypes THEN setAdd(listeners[t], listener)
                    ELSE listeners[t]]

\* destroy(): removeEventListeners, removeAllListeners, clearTimeout
destroy ==
    /\ domAttached' = FALSE
    /\ listeners' = [t \in EventTypes |-> <<>>]
    /\ debounceTimers' = clearTimeout(timeoutId, debounceTimers)
    /\ timeoutId' = IF timeoutId = "live" THEN "stale" ELSE timeoutId
    /\ isInitialized' = FALSE

\* dismiss(): blur the focused input; the blur raises focusout
dismiss ==
    IF isInputElement(activeElement)
    THEN /\ activeElement' = "BODY"
         /\ signal(domAttached)
    ELSE UNCHANGED <<activeElement, debounceVars>>

(***************************************************************************)
(* useKeyboardAnimation: the interpolator. Heights and progress are        *)
(* fixed-point numbers in thousandths (1000 is one pixel, or progress 1),  *)
(* divisions round down                                                    *)
(***************************************************************************)
Min(a, b) == IF a <= b THEN a ELSE b

\* a controller height (pixels) as the hook's number
px(height) == height * 1000

\* tick with the quadratic ease-out 1 - (1 - t)^2
tick_Quadratic(a, currentTime) ==
    LET elapsed == currentTime - a.startTime
        progress == Min((elapsed * 1000) \div a.duration, 1000)
        easedProgress == 1000 - ((1000 - progress) ^ 2) \div 1000
        currentHeight == a.startHeight
                            + ((a.targetHeight - a.startHeight) * easedProgress) \div 1000
        keyboardProgress ==
            IF a.targetHeight > 0
            THEN (currentHeight * 1000) \div a.targetHeight
            ELSE 1000 - (currentHeight * 1000) \div Max(a.startHeight, 1000)
    IN  [height |-> currentHeight,
         progress |-> Max(0, Min(1000, keyboardProgress)),
         again |-> progress < 1000]

\* tick without Math.max(0, Math.min(1, keyboardProgress))
tick_Unclamped(a, currentTime) ==
    LET elapsed == currentTime - a.startTime
        progress == Min((elapsed * 1000) \div a.duration, 1000)
        easedProgress == 1000 - ((1000 - progress) ^ 3) \div 1000000
        currentHeight == a.startHeight
                            + ((a.targetHeight - a.startHeight) * easedProgress) \div 1000
        keyboardProgress ==
            IF a.targetHeight > 0
            THEN (currentHeight * 1000) \div a.targetHeight
            ELSE 1000 - (currentHeight * 1000) \div Max(a.startHeight, 1000)
    IN  [height |-> currentHeight,
         progress |-> keyboardProgress,
         again |-> progress < 1000]

\* tick(currentTime) on the animation a: the state it sets, and whether it
\* requests another frame
tick(a, currentTime) ==
    LET elapsed == currentTime - a.startTime
        progress == Min((elapsed * 1000) \div a.duration, 1000)
        easedProgress == 1000 - ((1000 - progress) ^ 3) \div 1000000
        currentHeight == a.startHeight
                            + ((a.targetHeight - a.startHeight) * easedProgress) \div 1000
        keyboardProgress ==
            IF a.targetHeight > 0
            THEN (currentHeight * 1000) \div a.targetHeight
            ELSE 1000 - (currentHeight * 1000) \div Max(a.startHeight, 1000)
    IN  [height |-> currentHeight,
         progress |-> Max(0, Min(1000, keyboardProgress)),
         again |-> progress < 1000]

\* animate(targetHeight, duration) of the registered closure: it reads
\* animationState.height of the render it was created in
animate(targetHeight, duration) ==
    /\ animation' = [startTime |-> performanceNow,
                     startHeight |-> depsHeight,
                     targetHeight |-> px(targetHeight),
                     duration |-> duration,
                     rafId |-> "live"]
    /\ tickTime' = -1
    /\ UNCHANGED <<mounted, animationState, depsHeight, performanceNow>>

\* handleKeyboardEvent(event)
handleKeyboardEvent(event) ==
    IF event.type \in WillTypes
    THEN /\ animate(event.state.height, event.state.duration)
         /\ requested' = event.type
    ELSE UNCHANGED animVars

\* listener(event) of emitEvent, for the listener of the mounted hook
\* instance: the other listeners keep no state
listenerCall ==
    LET mine == SelectSeq(emitted', LAMBDA e :
                    \E i \in 1..Len(e.called) : e.called[i] = "handleKeyboardEvent")
    IN  IF mounted /\ mine # <<>>
        THEN handleKeyboardEvent(mine[1])
        ELSE UNCHANGED animVars

\* handleFocusOut running the recompute inside the dispatch instead of
\* scheduling it: no timer is set
handleFocusOut_Nested(id, pending) ==
    [timeoutId |-> id, debounceTimers |-> pending, collapsed |-> collapsed]

\* handleFocusOut for the focusout that activeElement.blur() of dismiss()
\* raises while a dispatch is under way
handleFocusOut(id, pending) == reschedule(id, pending)

\* what the listeners called for the events of a step leave behind: the Set
\* of the event type, and, when one of them called dismiss() while an input
\* had the focus, the blur and the recompute handleFocusOut schedules; id
\* and pending are the debounce handle and timers when the dispatch begins
afterDispatch(events, id, pending) ==
    LET walk == IF events = <<>>
                THEN [called |-> <<>>, set |-> <<>>, dismissed |-> FALSE]
                ELSE forEach(listeners[events[1].type], 1, FALSE)
        blurs == walk.dismissed /\ isInputElement(activeElement)
        timer == IF blurs /\ domAttached
                 THEN handleFocusOut(id, pending)
                 ELSE [timeoutId |-> id, debounceTimers |-> pending,
                       collapsed |-> collapsed]
    IN  /\ listeners' = IF events = <<>> THEN listeners
                        ELSE [listeners EXCEPT ![events[1].type] = walk.set]
        /\ activeElement' = IF blurs THEN "BODY" ELSE activeElement
        /\ timeoutId' = timer.timeoutId
        /\ debounceTimers' = timer.debounceTimers
        /\ collapsed' = timer.collapsed

(***************************************************************************)
(* Timer callbacks                                                         *)
(***************************************************************************)
\* updateKeyboardState: classify, compare, emit keyboardWill* with the
\* calculated state (its type not yet assigned, currentState not yet
\* replaced), commit, write the CSS variables back, schedule keyboardDid*.
\* An exception leaving emitEvent would end the function there.
updateKeyboardState ==
    LET previousState == currentState.keyboard
        calculated == calculateKeyboardState
        type == transitionType(previousState, calculated)
        newState == [calculated EXCEPT !.type = type]
        committed == [keyboard |-> newState,
                      safeArea |-> getSafeAreaInsets,
                      availableHeight |-> calculateAvailableHeight(newState)]
        will == IF type = "opening"
                THEN <<emitEvent("keyboardWillShow", calculated)>>
                ELSE IF type = "closing"
                THEN <<emitEvent("keyboardWillHide", calculated)>>
                ELSE <<>>
    IN  IF statesEqual(previousState, calculated)
        THEN /\ emitted' = <<>>
             /\ UNCHANGED <<currentState, inlineSafeArea, cssVars, didTimers>>
        ELSE /\ emitted' = will
             /\ IF \E i \in 1..Len(will) : will[i].thrown
                THEN UNCHANGED <<currentState, inlineSafeArea, cssVars, didTimers>>
                ELSE /\ currentState' = committed
                     /\ inlineSafeArea' = <<committed.safeArea.top,
                                            committed.safeArea.bottom>>
                     /\ cssVars' = [keyboardHeight |-> newState.height,
                                    keyboardVisible |-> newState.isVisible,
                                    availableHeight |-> committed.availableHeight,
                                    bodyLocked |-> newState.platform = "ios"
                                                      /\ newState.isVisible]
                     /\ didTimers' = completionTimers(didTimers, newState)

\* the callback of the 100 ms timer scheduleStateUpdate sets
debounceCallback ==
    /\ debounceTimers > 0
    /\ ran' = "updateKeyboardState"
    /\ UNCHANGED faultVars
    /\ UNCHANGED <<now, unsubscribes>>
    /\ updateKeyboardState
    /\ afterDispatch(emitted',
                     IF timeoutId = "live" /\ debounceTimers = 1 THEN "stale" ELSE timeoutId,
                     debounceTimers - 1)
    /\ listenerCall
    /\ UNCHANGED agentVars
    /\ UNCHANGED <<platform, hasVisualViewport, hasVirtualKeyboard, innerHeight,
                   visualHeight, insetHeight, envSafeArea, overlaysContent, hookVars,
                   isInitialized, initialViewportHeight, configDuration, orientationTimers>>

\* the 100 ms timer running with at most MaxDidTimers keyboardDid* timers
\* left pending afterwards
DebounceTimerFire == debounceCallback /\ Len(didTimers') <= MaxDidTimers

\* the 100 ms timer running before the keyboardDid* timer of the transition
\* before it
EarlyDebounceTimerFire == debounceCallback /\ Len(didTimers') <= MaxSupersededTimers

\* the callback of the 500 ms timer handleOrientationChange sets
OrientationTimerFire ==
    /\ orientationTimers > 0
    /\ ran' = "orientationRecapture"
    /\ UNCHANGED faultVars
    /\ UNCHANGED animVars
    /\ UNCHANGED agentVars
    /\ UNCHANGED <<now, unsubscribes>>
    /\ emitted' = <<>>
    /\ orientationTimers' = orientationTimers - 1
    /\ initialViewportHeight' = innerHeight
    /\ scheduleStateUpdate
    /\ UNCHANGED <<envVars, styleVars, hookVars, isInitialized, currentState,
                   configDuration, listeners, didTimers>>

\* timers run in expiry order: an earlier timer with a delay no longer than
\* that of timer i runs before it
didTimerDue(i) ==
    /\ i \in 1..Len(didTimers)
    /\ \A j \in 1..(i - 1) : didTimers[j].duration > didTimers[i].duration

\* the callback of a keyboardDidShow / keyboardDidHide timer
DidTimerFire ==
    \E i \in 1..Len(didTimers) :
        /\ didTimerDue(i)
        /\ ran' = "keyboardDid"
        /\ UNCHANGED faultVars
        /\ UNCHANGED animVars
        /\ UNCHANGED agentVars
        /\ UNCHANGED <<now, unsubscribes>>
        /\ emitted' = <<emitEvent(didTimers[i].type, didTimers[i].state)>>
        /\ afterDispatch(emitted', timeoutId, debounceTimers)
        /\ didTimers' = [k \in 1..(Len(didTimers) - 1) |->
                            IF k < i THEN didTimers[k] ELSE didTimers[k + 1]]
        /\ UNCHANGED <<platform, hasVisualViewport, hasVirtualKeyboard, innerHeight,
                       visualHeight, insetHeight, envSafeArea, styleVars, hookVars,
                       isInitialized, initialViewportHeight, currentState, configDuration,
                       orientationTimers>>

(***************************************************************************)
(* Environment signals and their handlers                                  *)
(***************************************************************************)
\* focus moves to another element: focusout of the old one (handleFocusOut)
\* and focusin of the new one (handleFocusIn); BODY is "nothing focused"
FocusChange ==
    \E element \in Elements \ {activeElement} :
        /\ ran' = "none"
        /\ UNCHANGED faultVars
        /\ UNCHANGED animVars
        /\ UNCHANGED agentVars
        /\ UNCHANGED <<now, unsubscribes>>
        /\ emitted' = <<>>
        /\ activeElement' = element
        /\ IF activeElement # "BODY" \/ isInputElement(element)
           THEN signal(domAttached)
           ELSE UNCHANGED debounceVars
        /\ UNCHANGED <<platform, hasVisualViewport, hasVirtualKeyboard, innerHeight,
                       visualHeight, insetHeight, envSafeArea, styleVars, hookVars,
                       ctlVars, timerVars>>

\* visualViewport resize: handleViewportResize
ViewportResize ==
    \E h \in VisualHeights \ {visualHeight} :
        /\ hasVisualViewport
        /\ ran' = "none"
        /\ UNCHANGED faultVars
        /\ UNCHANGED animVars
        /\ UNCHANGED agentVars
        /\ UNCHANGED <<now, unsubscribes>>
        /\ emitted' = <<>>
        /\ visualHeight' = h
        /\ signal(domAttached)
        /\ UNCHANGED <<platform, hasVisualViewport, hasVirtualKeyboard, innerHeight,
                       insetHeight, activeElement, envSafeArea, styleVars, hookVars,
                       ctlVars, timerVars>>

\* visualViewport scroll: handleViewportScroll
ViewportScroll ==
    /\ hasVisualViewport
    /\ ran' = "none"
    /\ UNCHANGED faultVars
    /\ UNCHANGED animVars
    /\ UNCHANGED agentVars
    /\ UNCHANGED <<now, unsubscribes>>
    /\ emitted' = <<>>
    /\ signal(domAttached)
    /\ UNCHANGED <<envVars, styleVars, hookVars, ctlVars, timerVars>>

\* window resize: handleWindowResize
WindowResize ==
    \E h \in WindowHeights \ {innerHeight} :
        /\ ran' = "none"
        /\ UNCHANGED faultVars
        /\ UNCHANGED animVars
        /\ UNCHANGED agentVars
        /\ UNCHANGED <<now, unsubscribes>>
        /\ emitted' = <<>>
        /\ innerHeight' = h
        /\ signal(domAttached)
        /\ UNCHANGED <<platform, hasVisualViewport, hasVirtualKeyboard, visualHeight,
                       insetHeight, activeElement, envSafeArea, styleVars, hookVars,
                       ctlVars, timerVars>>

\* orientationchange: handleOrientationChange starts the 500 ms timer
OrientationChange ==
    /\ domAttached
    /\ orientationTimers < MaxOrientationTimers
    /\ ran' = "none"
    /\ UNCHANGED faultVars
    /\ UNCHANGED animVars
    /\ UNCHANGED agentVars
    /\ UNCHANGED <<now, unsubscribes>>
    /\ emitted' = <<>>
    /\ orientationTimers' = orientationTimers + 1
    /\ UNCHANGED <<envVars, styleVars, hookVars, ctlVars, debounceVars, didTimers>>

\* navigator.virtualKeyboard geometrychange: the anonymous listener of
\* setupVirtualKeyboardAPI; the inset is reported only in overlay mode
GeometryChange ==
    \E h \in InsetHeights \ {insetHeight} :
        /\ hasVirtualKeyboard
        /\ h # 0 => overlaysContent = "true"
        /\ ran' = "none"
        /\ UNCHANGED faultVars
        /\ UNCHANGED animVars
        /\ UNCHANGED agentVars
        /\ UNCHANGED <<now, unsubscribes>>
        /\ emitted' = <<>>
        /\ insetHeight' = h
        /\ signal(geometryListeners > 0)
        /\ UNCHANGED <<platform, hasVisualViewport, hasVirtualKeyboard, innerHeight,
                       visualHeight, activeElement, envSafeArea, styleVars, hookVars,
                       ctlVars, timerVars>>

(***************************************************************************)
(* Callers of the public methods                                           *)
(***************************************************************************)
\* the module's auto-initialisation: initialize({animation: {duration: 250}})
Initialize ==
    /\ isInitialized \/ ~hasVirtualKeyboard \/ platform # "android"
          \/ geometryListeners < MaxGeometryListeners
    /\ ran' = "none"
    /\ UNCHANGED <<now, unsubscribes>>
    /\ emitted' = <<>>
    /\ initialize(<<250>>)
    /\ UNCHANGED animVars
    /\ UNCHANGED agentVars
    /\ UNCHANGED <<envVars, inlineSafeArea, cssVars, initialViewportHeight, currentState,
                   listeners, debounceVars, timerVars>>

\* a useKeyboardAnimation hook mounts: initialize(), then addListener for
\* keyboardWillShow and keyboardWillHide
UseKeyboardAnimation ==
    \E l \in ListenerIds :
        /\ isInitialized \/ ~hasVirtualKeyboard \/ platform # "android"
              \/ geometryListeners < MaxGeometryListeners
        /\ ran' = "none"
        /\ UNCHANGED <<now, unsubscribes>>
        /\ emitted' = <<>>
        /\ initialize(<<>>)
        /\ UNCHANGED animVars
        /\ UNCHANGED agentVars
        /\ addListener(WillTypes, l)
        /\ UNCHANGED <<envVars, inlineSafeArea, cssVars, initialViewportHeight,
                       currentState, debounceVars, timerVars>>

Destroy ==
    /\ ran' = "none"
    /\ UNCHANGED faultVars
    /\ UNCHANGED animVars
    /\ UNCHANGED agentVars
    /\ UNCHANGED <<now, unsubscribes>>
    /\ emitted' = <<>>
    /\ destroy
    /\ UNCHANGED <<envVars, styleVars, geometryListeners, initialViewportHeight,
                   currentState, configDuration, collapsed, timerVars>>

Dismiss ==
    /\ ran' = "none"
    /\ UNCHANGED faultVars
    /\ UNCHANGED animVars
    /\ UNCHANGED agentVars
    /\ UNCHANGED <<now, unsubscribes>>
    /\ emitted' = <<>>
    /\ dismiss
    /\ UNCHANGED <<platform, hasVisualViewport, hasVirtualKeyboard, innerHeight,
                   visualHeight, insetHeight, envSafeArea, styleVars, hookVars, ctlVars,
                   timerVars>>

\* the clock advances
Tick ==
    /\ now < MaxClock
    /\ now' = now + 1
    /\ ran' = "none"
    /\ UNCHANGED faultVars
    /\ UNCHANGED animVars
    /\ UNCHANGED agentVars
    /\ emitted' = <<>>
    /\ UNCHANGED <<envVars, styleVars, hookVars, ctlVars, debounceVars, timerVars,
                   unsubscribes>>

\* the steps of a browser without navigator.virtualKeyboard
NextWithoutKeyboardApi ==
    \/ Initialize
    \/ UseKeyboardAnimation
    \/ Destroy
    \/ Dismiss
    \/ FocusChange
    \/ ViewportResize
    \/ ViewportScroll
    \/ WindowResize
    \/ OrientationChange
    \/ DebounceTimerFire
    \/ OrientationTimerFire
    \/ DidTimerFire

Next ==
    \/ NextWithoutKeyboardApi
    \/ GeometryChange

Spec == Init /\ [][Next]_vars

\* the devices of Devices without navigator.virtualKeyboard that the liveness
\* check runs on: iOS Safari, and an Android browser without visualViewport
LiveDevices == {<<"ios", TRUE, FALSE>>, <<"android", FALSE, FALSE>>}

LiveInit == Init /\ <<platform, hasVisualViewport, hasVirtualKeyboard>> \in LiveDevices

\* the steps of NextWithoutKeyboardApi other than the orientation recapture,
\* which starts no keyboardDid* timer and delivers none
LiveNext ==
    \/ Initialize
    \/ UseKeyboardAnimation
    \/ Destroy
    \/ Dismiss
    \/ FocusChange
    \/ ViewportResize
    \/ ViewportScroll
    \/ WindowResize
    \/ DebounceTimerFire
    \/ DidTimerFire

\* the event loop runs every keyboardDid* timer that is due: nothing in the
\* controller ever cancels one
LiveSpec == LiveInit /\ [][LiveNext]_vars /\ WF_vars(DidTimerFire)

(***************************************************************************)
(* The rest of the public interface, and the consumers that call it        *)
(***************************************************************************)
\* config.animation.duration samples of setAnimationConfig
AnimationDurations == {300}
\* the listener functions of the two hooks: useKeyboardAnimation's handler and
\* the one useKeyboardHandler makes around its config's onKeyboardEvent
HookListeners == {"handleKeyboardEvent", "onKeyboardEvent"}
\* the event type the consumers of useKeyboardController remove listeners of
RemovedTypes == {"keyboardWillShow"}
\* the <<query, part>> of a returned object a consumer assigns to
Snapshots == {<<"getState", "keyboard">>, <<"getState", "safeArea">>,
              <<"getState", "availableHeight">>, <<"state", "keyboard">>}

\* getState() of a controller that builds its state in initialize()
getState_Lazy ==
    IF isInitialized
    THEN [keyboard |-> currentState.keyboard, safeArea |-> currentState.safeArea,
          availableHeight |-> currentState.availableHeight]
    ELSE <<>>

\* getState(): a copy of the top level of this.currentState
getState ==
    [keyboard |-> currentState.keyboard, safeArea |-> currentState.safeArea,
     availableHeight |-> currentState.availableHeight]

\* removeListener(eventType, listener)
removeListener(eventType, listener) ==
    listeners' = [listeners EXCEPT ![eventType] = setDelete(@, listener)]

\* removeAllListeners(eventType?): "" is the call without an argument
removeAllListeners(eventType) ==
    listeners' = IF eventType = "" THEN [t \in EventTypes |-> <<>>]
                 ELSE [listeners EXCEPT ![eventType] = <<>>]

\* setAnimationConfig applying the new duration by a recompute
setAnimationConfig_Recompute(config) ==
    /\ configDuration' = IF config = <<>> THEN configDuration ELSE config[1]
    /\ updateKeyboardState

\* setAnimationConfig(config): config is <<>> or <<duration>>; the method
\* assigns this.config.animation and nothing else
setAnimationConfig(config) ==
    /\ configDuration' = IF config = <<>> THEN configDuration ELSE config[1]
    /\ emitted' = <<>>
    /\ UNCHANGED <<currentState, inlineSafeArea, cssVars, didTimers>>

\* whether a part of the object a query returns is the controller's own
\* object: getState() spreads this.currentState, so its keyboard and safeArea
\* are the objects the controller holds; state() spreads the keyboard state
shared(query, part) == query = "getState" /\ part \in {"keyboard", "safeArea"}

\* the assignment a consumer makes to a part of a returned object
assigned(part, object) ==
    CASE part = "keyboard" -> [object EXCEPT !.keyboard.isVisible = ~@]
      [] part = "safeArea" -> [object EXCEPT !.safeArea.bottom = 0]
      [] part = "availableHeight" -> [object EXCEPT !.availableHeight = 0]

\* a useKeyboardHandler hook mounts: initialize(), then addListener of
\* handleKeyboardEvent(type) for the four event types
UseKeyboardHandler ==
    /\ isInitialized \/ ~hasVirtualKeyboard \/ platform # "android"
          \/ geometryListeners < MaxGeometryListeners
    /\ ran' = "none"
    /\ UNCHANGED <<now, unsubscribes>>
    /\ emitted' = <<>>
    /\ initialize(<<>>)
    /\ UNCHANGED animVars
    /\ UNCHANGED agentVars
    /\ addListener(EventTypes, "onKeyboardEvent")
    /\ UNCHANGED <<envVars, inlineSafeArea, cssVars, initialViewportHeight,
                   currentState, debounceVars, timerVars>>

\* getState(), state(), isVisible(): they read this.currentState
Query ==
    /\ ran' = "none"
    /\ UNCHANGED faultVars
    /\ UNCHANGED animVars
    /\ UNCHANGED agentVars
    /\ UNCHANGED <<now, unsubscribes>>
    /\ emitted' = <<>>
    /\ UNCHANGED <<envVars, styleVars, hookVars, ctlVars, debounceVars, timerVars>>

RemoveListener ==
    \E t \in RemovedTypes, l \in HookListeners :
        /\ ran' = "none"
        /\ UNCHANGED faultVars
        /\ UNCHANGED animVars
        /\ UNCHANGED agentVars
        /\ UNCHANGED <<now, unsubscribes>>
        /\ emitted' = <<>>
        /\ removeListener(t, l)
        /\ UNCHANGED <<envVars, styleVars, hookVars, isInitialized, initialViewportHeight,
                       currentState, configDuration, debounceVars, timerVars>>

RemoveAllListeners ==
    \E t \in RemovedTypes \cup {""} :
        /\ ran' = "none"
        /\ UNCHANGED faultVars
        /\ UNCHANGED animVars
        /\ UNCHANGED agentVars
        /\ UNCHANGED <<now, unsubscribes>>
        /\ emitted' = <<>>
        /\ removeAllListeners(t)
        /\ UNCHANGED <<envVars, styleVars, hookVars, isInitialized, initialViewportHeight,
                       currentState, configDuration, debounceVars, timerVars>>

SetAnimationConfig ==
    \E d \in AnimationDurations :
        /\ ran' = "none"
        /\ UNCHANGED faultVars
        /\ UNCHANGED animVars
        /\ UNCHANGED agentVars
        /\ UNCHANGED <<now, unsubscribes>>
        /\ setAnimationConfig(<<d>>)
        /\ UNCHANGED <<envVars, overlaysContent, hookVars, isInitialized,
                       initialViewportHeight, listeners, debounceVars, orientationTimers>>

\* a consumer assigns to a part of the object getState() or state() returned.
\* The keyboard object the controller holds is also the newState of the
\* keyboardDid* timer its commit started.
MutateSnapshot ==
    \E snapshot \in Snapshots :
        /\ ran' = "none"
        /\ UNCHANGED faultVars
        /\ UNCHANGED animVars
        /\ UNCHANGED agentVars
        /\ UNCHANGED <<now, unsubscribes>>
        /\ emitted' = <<>>
        /\ IF shared(snapshot[1], snapshot[2])
           THEN /\ currentState' = assigned(snapshot[2], getState)
                /\ didTimers' = [i \in 1..Len(didTimers) |->
                                    IF didTimers[i].state = currentState.keyboard
                                    THEN [didTimers[i] EXCEPT
                                             !.state = currentState'.keyboard]
                                    ELSE didTimers[i]]
           ELSE UNCHANGED <<currentState, didTimers>>
        /\ UNCHANGED <<envVars, styleVars, hookVars, isInitialized, initialViewportHeight,
                       configDuration, listeners, debounceVars, orientationTimers>>

\* a consumer calls addListener(eventType, listener) and keeps the
\* unsubscribe function it returns
AddListener ==
    \E t \in WillTypes, l \in HookListeners :
        /\ Len(unsubscribes) < MaxUnsubscribes
        /\ emitted' = <<>>
        /\ addListener({t}, l)
        /\ unsubscribes' = Append(unsubscribes,
                                  [eventType |-> t, listener |-> l, calls |-> 0])
        /\ UNCHANGED <<envVars, styleVars, hookVars, isInitialized, initialViewportHeight,
                       currentState, configDuration, debounceVars, timerVars, now, ran,
                       faultVars, animVars, agentVars>>

\* a consumer calls an unsubscribe function it holds:
\* this.listeners.get(eventType)?.delete(listener)
Unsubscribe ==
    \E i \in 1..Len(unsubscribes) :
        /\ unsubscribes[i].calls < MaxCalls
        /\ emitted' = <<>>
        /\ removeListener(unsubscribes[i].eventType, unsubscribes[i].listener)
        /\ unsubscribes' = [unsubscribes EXCEPT ![i].calls = @ + 1]
        /\ UNCHANGED <<envVars, styleVars, hookVars, isInitialized, initialViewportHeight,
                       currentState, configDuration, debounceVars, timerVars, now, ran,
                       faultVars, animVars, agentVars>>

\* the calls of the public methods
PublicCall ==
    \/ Initialize
    \/ UseKeyboardAnimation
    \/ UseKeyboardHandler
    \/ Destroy
    \/ Dismiss
    \/ Query
    \/ RemoveListener
    \/ RemoveAllListeners
    \/ SetAnimationConfig

ApiNext ==
    \/ PublicCall
    \/ FocusChange
    \/ ViewportResize
    \/ DebounceTimerFire
    \/ DidTimerFire

\* iOS Safari
ApiInit == Init /\ platform = "ios"

\* the controller under the calls of its hooks and of useKeyboardController
ApiSpec == ApiInit /\ [][ApiNext]_vars

ConsumerNext ==
    \/ Initialize
    \/ Query
    \/ MutateSnapshot
    \/ FocusChange
    \/ ViewportResize
    \/ DebounceTimerFire
    \/ DidTimerFire

\* the controller under a consumer that writes to the objects it was handed
ConsumerSpec == ApiInit /\ [][ConsumerNext]_vars

ClockNext ==
    \/ Initialize
    \/ Tick
    \/ FocusChange
    \/ ViewportResize
    \/ DebounceTimerFire
    \/ DidTimerFire

\* the controller with the clock its timestamps are read from
ClockSpec == ApiInit /\ [][ClockNext]_vars

RegistryNext ==
    \/ AddListener
    \/ Unsubscribe
    \/ RemoveListener
    \/ RemoveAllListeners
    \/ Destroy

\* the listener registry under the consumers that add and remove listeners
RegistrySpec == ApiInit /\ [][RegistryNext]_vars

(***************************************************************************)
(* A browser that rejects the virtual keyboard's overlay mode              *)
(***************************************************************************)
\* Chrome on Android whose navigator.virtualKeyboard throws when
\* overlaysContent is assigned
DegradedInit ==
    /\ browser(AndroidDevices)
    /\ constructor
    /\ userAgent = agentOf(platform)
    /\ unmounted
    /\ <<platform, hasVisualViewport, hasVirtualKeyboard>> = <<"android", TRUE, TRUE>>
    /\ activationThrows = TRUE

DegradedNext ==
    \/ Initialize
    \/ Destroy
    \/ FocusChange
    \/ ViewportResize
    \/ DebounceTimerFire
    \/ DidTimerFire

DegradedSpec == DegradedInit /\ [][DegradedNext]_vars

(***************************************************************************)
(* useKeyboardAnimation: its effect and its frames                         *)
(***************************************************************************)
\* the body of the effect: initialize(), addListener for keyboardWillShow
\* and keyboardWillHide after the cleanup of the previous run removed the
\* previous handleKeyboardEvent, setAnimationState from the controller
effect ==
    /\ initialize(<<>>)
    /\ listeners' = [t \in EventTypes |->
                       IF t \in WillTypes
                       THEN setAdd(setDelete(listeners[t], "handleKeyboardEvent"),
                                   "handleKeyboardEvent")
                       ELSE listeners[t]]
    /\ animationState' = [height |-> px(currentState.keyboard.height),
                          progress |-> IF currentState.keyboard.isVisible
                                       THEN 1000 ELSE 0]
    /\ depsHeight' = animationState.height

\* the hook instance mounts: first render, first run of the effect
Mount ==
    /\ ~mounted
    /\ isInitialized \/ ~hasVirtualKeyboard \/ platform # "android"
          \/ geometryListeners < MaxGeometryListeners
    /\ ran' = "none"
    /\ emitted' = <<>>
    /\ mounted' = TRUE
    /\ effect
    /\ UNCHANGED <<animation, performanceNow, requested, tickTime>>
    /\ UNCHANGED <<envVars, inlineSafeArea, cssVars, initialViewportHeight, currentState,
                   debounceVars, timerVars, now, unsubscribes, agentVars>>

\* React renders the hook after setAnimationState and then flushes its
\* effects: animate depends on [animationState.height], handleKeyboardEvent
\* on [animate] and the effect on [handleKeyboardEvent], so a render with
\* another height runs the cleanup (unsubscribe, cancelAnimationFrame) and
\* the effect again
Rerender ==
    /\ mounted
    /\ animationState.height # depsHeight
    /\ isInitialized \/ ~hasVirtualKeyboard \/ platform # "android"
          \/ geometryListeners < MaxGeometryListeners
    /\ ran' = "none"
    /\ emitted' = <<>>
    /\ animation' = [animation EXCEPT !.rafId = IF @ = "live" THEN "stale" ELSE @]
    /\ effect
    /\ tickTime' = -1
    /\ UNCHANGED <<mounted, performanceNow, requested>>
    /\ UNCHANGED <<envVars, inlineSafeArea, cssVars, initialViewportHeight, currentState,
                   debounceVars, timerVars, now, unsubscribes, agentVars>>

\* the browser runs the requested animation frame: tick(currentTime)
AnimationFrame ==
    \E interval \in FrameIntervals :
        LET currentTime == performanceNow + interval
            state == tick(animation, currentTime)
        IN  /\ mounted
            /\ animation.rafId = "live"
            /\ currentTime <= MaxFrameTime
            /\ ran' = "none"
            /\ emitted' = <<>>
            /\ performanceNow' = currentTime
            /\ animationState' = [height |-> state.height, progress |-> state.progress]
            /\ animation' = [animation EXCEPT
                                !.rafId = IF state.again THEN "live" ELSE "null"]
            /\ tickTime' = currentTime
            /\ UNCHANGED <<mounted, depsHeight, requested>>
            /\ UNCHANGED <<envVars, styleVars, hookVars, ctlVars, debounceVars, timerVars,
                           now, unsubscribes, faultVars, agentVars>>

AnimNext ==
    \/ Mount
    \/ Rerender
    \/ AnimationFrame
    \/ FocusChange
    \/ ViewportResize
    \/ DebounceTimerFire
    \/ DidTimerFire

\* the controller on iOS Safari with one useKeyboardAnimation hook
AnimSpec == ApiInit /\ [][AnimNext]_vars

\* an animation under way whose first frame is still to come
TickInit ==
    /\ browser(Devices)
    /\ constructor
    /\ platform = "ios"
    /\ userAgent = agentOf(platform)
    /\ activationThrows = FALSE
    /\ mounted = TRUE
    /\ \E startHeight \in AnimationStarts, targetHeight \in AnimationTargets,
          duration \in AnimationTimes, startTime \in StartTimes :
          /\ animation = [startTime |-> startTime, startHeight |-> px(startHeight),
                          targetHeight |-> px(targetHeight), duration |-> duration,
                          rafId |-> "live"]
          /\ animationState = [height |-> px(startHeight),
                               progress |-> IF startHeight > 0 THEN 1000 ELSE 0]
          /\ depsHeight = px(startHeight)
    /\ performanceNow = 0
    /\ requested = "none"
    /\ tickTime = -1

\* the frames of one animation, without the renders between them
TickSpec == TickInit /\ [][AnimationFrame]_vars

(***************************************************************************)
(* Consumers that register listeners, and the events dispatched to them    *)
(***************************************************************************)
DispatchNext ==
    \/ Initialize
    \/ AddListener
    \/ FocusChange
    \/ ViewportResize
    \/ DebounceTimerFire
    \/ DidTimerFire

\* the controller under consumers that only add listeners
DispatchSpec == ApiInit /\ [][DispatchNext]_vars

(***************************************************************************)
(* Listeners that call the controller from inside a dispatch               *)
(***************************************************************************)
\* a consumer registers a listener that calls back into the controller
AddReentrantListener ==
    \E t \in ReentrantTypes, l \in ReentrantListeners :
        /\ Len(listeners["keyboardWillShow"]) + Len(listeners["keyboardDidShow"])
              < MaxReentrant
        /\ ran' = "none"
        /\ emitted' = <<>>
        /\ addListener({t}, l)
        /\ UNCHANGED <<envVars, styleVars, hookVars, isInitialized, initialViewportHeight,
                       currentState, configDuration, debounceVars, timerVars, now,
                       unsubscribes, faultVars, animVars, agentVars>>

ReentrantNext ==
    \/ Initialize
    \/ AddReentrantListener
    \/ FocusChange
    \/ ViewportResize
    \/ DebounceTimerFire
    \/ DidTimerFire

\* the controller under listeners that call it during dispatch
ReentrantSpec == ApiInit /\ [][ReentrantNext]_vars

(***************************************************************************)
(* Platform classification                                                 *)
(***************************************************************************)
\* a consumer (useVirtualKeyboard) calls detectPlatform() of utils/platform
DetectPlatform ==
    /\ detected = "none"
    /\ detected' = detectPlatform(userAgent)
    /\ ran' = "none"
    /\ emitted' = <<>>
    /\ UNCHANGED <<envVars, styleVars, hookVars, ctlVars, debounceVars, timerVars, now,
                   unsubscribes, faultVars, animVars, userAgent>>

\* the controller constructed in a browser with any of the user agents
PlatformInit == browser(Devices) /\ constructor /\ activationThrows = FALSE /\ unmounted

PlatformSpec == PlatformInit /\ [][DetectPlatform]_vars

(***************************************************************************)
(* Android browsers with every combination of the two viewport APIs        *)
(***************************************************************************)

AndroidInit ==
    /\ browser(AndroidDevices)
    /\ constructor
    /\ userAgent = agentOf(platform)
    /\ activationThrows = FALSE
    /\ unmounted

AndroidNext ==
    \/ Initialize
    \/ FocusChange
    \/ ViewportResize
    \/ WindowResize
    \/ GeometryChange
    \/ DebounceTimerFire
    \/ DidTimerFire

AndroidSpec == AndroidInit /\ [][AndroidNext]_vars

(***************************************************************************)
(* Every sampled browser under the signals that change a height the        *)
(* classification reads                                                    *)
(***************************************************************************)
AllDevices == Devices \cup AndroidDevices

HeightInit ==
    /\ browser(AllDevices)
    /\ constructor
    /\ userAgent = agentOf(platform)
    /\ activationThrows = FALSE
    /\ unmounted

HeightNext ==
    \/ Initialize
    \/ FocusChange
    \/ ViewportResize
    \/ WindowResize
    \/ GeometryChange
    \/ OrientationChange
    \/ OrientationTimerFire
    \/ DebounceTimerFire
    \/ DidTimerFire

HeightSpec == HeightInit /\ [][HeightNext]_vars

(***************************************************************************)
(* useKeyboardState                                                        *)
(***************************************************************************)
\* Date.now() when the controller was constructed, in ms; the model's clock
\* counts from there
ConstructionTimes == {1000}

\* the number Date.now() returned for the model's time t
dateNow(t) == t + CHOOSE c \in ConstructionTimes : TRUE

\* the test of the mount effect,
\* !KeyboardController.isVisible && !KeyboardController.state().timestamp:
\* isVisible is read, not called, and the method it names is an object
notInitialized ==
    LET isVisible == "function"
        timestamp == dateNow(currentState.keyboard.timestamp)
    IN  /\ ~(isVisible \in {"function", "object"})
        /\ ~(timestamp # 0)

\* the mount effect of useKeyboardState: initialize under the test, then
\* updateState registered for the four event types (updateState itself reads
\* getState() into the hook's own state)
UseKeyboardState ==
    /\ isInitialized \/ ~hasVirtualKeyboard \/ platform # "android"
          \/ geometryListeners < MaxGeometryListeners
    /\ ran' = "useKeyboardState"
    /\ UNCHANGED <<now, unsubscribes>>
    /\ emitted' = <<>>
    /\ IF notInitialized
       THEN initialize(<<>>)
       ELSE UNCHANGED <<configDuration, domAttached, overlaysContent, geometryListeners,
                        isInitialized, faultVars>>
    /\ UNCHANGED animVars
    /\ UNCHANGED agentVars
    /\ addListener(EventTypes, "updateState")
    /\ UNCHANGED <<envVars, inlineSafeArea, cssVars, initialViewportHeight,
                   currentState, debounceVars, timerVars>>

StateHookNext ==
    \/ Initialize
    \/ Destroy
    \/ UseKeyboardState
    \/ FocusChange
    \/ ViewportResize
    \/ DebounceTimerFire
    \/ DidTimerFire

StateHookSpec == ApiInit /\ [][StateHookNext]_vars

(***************************************************************************)
(* Transitions that follow each other within a transition duration         *)
(***************************************************************************)
SupersedeNext ==
    \/ Initialize
    \/ FocusChange
    \/ ViewportResize
    \/ EarlyDebounceTimerFire
    \/ DidTimerFire

SupersedeSpec == ApiInit /\ [][SupersedeNext]_vars

(***************************************************************************)
(* Properties                                                              *)
(***************************************************************************)
keyboard == currentState.keyboard
recomputed == ran = "updateKeyboardState"
\* the keyboardWill* events the last step dispatched
willEvents == {emitted[i] : i \in {j \in 1..Len(emitted) : emitted[j].type \in WillTypes}}
\* the keyboardDid* events the last step dispatched
didEvents == {emitted[i] : i \in {j \in 1..Len(emitted) : emitted[j].type \in DidTypes}}

\* C1: in every reachable controller state, keyboard.height = 0 implies
\* keyboard.isVisible = FALSE.
C1_ZeroHeightHidden == keyboard.height = 0 => ~keyboard.isVisible

\* C1 witness: a recompute with an input focused has committed height 0
C1_Witness ==
    /\ recomputed
    /\ isInputElement(activeElement)
    /\ keyboard.target = getElementId(activeElement)
    /\ keyboard.height = 0

\* C2: in every reachable controller state availableHeight >= 0.
C2_AvailableHeightNonNegative == currentState.availableHeight >= 0

\* C3: while the controller is destroyed no recompute runs and the controller
\* state is not mutated, whatever signal or pending timer fires.
C3_NoRecomputeAfterDestroy ==
    [][~isInitialized => (ran' # "updateKeyboardState" /\ currentState' = currentState)]_vars

\* C4: once destroy() has run, the 500 ms recapture of an earlier
\* orientationchange does not run: initialViewportHeight is not overwritten
\* and the recapture schedules no state update.
C4_RecaptureCancelledByDestroy ==
    [][~isInitialized => (/\ ran' # "orientationRecapture"
                          /\ initialViewportHeight' = initialViewportHeight)]_vars

\* C5: the triggers of one debounce window leave one pending recompute (the
\* earlier timers are cancelled), and the recompute that runs leaves none
\* pending, classifies the environment as it is when it runs, and emits at
\* most one keyboardWill* event.
C5_DebounceCollapse ==
    /\ debounceTimers <= 1
    /\ timeoutId = "live" => debounceTimers = 1
    /\ recomputed =>
          /\ debounceTimers = 0
          /\ statesEqual(keyboard, calculateKeyboardState)
          /\ Cardinality(willEvents) <= 1
          /\ Len(emitted) <= 1

\* C5 witness: a recompute ran for a window in which a later trigger replaced
\* an earlier timer, and it emitted its keyboardWill* event
C5_Witness == recomputed /\ collapsed /\ Cardinality(willEvents) = 1

\* C6: listeners of keyboardWillShow / keyboardWillHide that call getState()
\* during dispatch see the state the recompute commits.
C6_StateCommittedBeforeWill ==
    \A e \in willEvents : e.to # <<>> => e.seen = currentState

\* C7: a keyboardWill* event carries the committed keyboard state: isVisible,
\* height and the phase 'opening' (keyboardWillShow) or 'closing'
\* (keyboardWillHide).
C7_WillCarriesCommittedState ==
    \A e \in willEvents :
        /\ e.state.isVisible = keyboard.isVisible
        /\ e.state.height = keyboard.height
        /\ e.state.type = keyboard.type
        /\ e.state.type = (IF e.type = "keyboardWillShow" THEN "opening" ELSE "closing")

\* C8: a recompute that changes the state sets phase 'opening' exactly on
\* hidden -> visible, 'closing' exactly on visible -> hidden and 'stable'
\* otherwise, and commits the newly computed isVisible and height.
C8_PhaseOnCommit ==
    [][(ran' = "updateKeyboardState" /\ currentState' # currentState) =>
          LET prev == currentState.keyboard
              new == currentState'.keyboard
          IN  /\ new.type = "opening" <=> (~prev.isVisible /\ new.isVisible)
              /\ new.type = "closing" <=> (prev.isVisible /\ ~new.isVisible)
              /\ new.type = "stable" <=> (prev.isVisible = new.isVisible)
              /\ new.isVisible = calculateKeyboardState.isVisible
              /\ new.height = calculateKeyboardState.height]_vars

\* C8 witness: a visible -> hidden commit, just made
C8_Witness ==
    /\ recomputed
    /\ \E e \in willEvents : e.type = "keyboardWillHide"
    /\ keyboard.type = "closing"
    /\ ~keyboard.isVisible

\* the keyboardDid* timer a keyboardWill* event starts
didTimerOf(e) ==
    [type |-> IF e.type = "keyboardWillShow" THEN "keyboardDidShow" ELSE "keyboardDidHide",
     height |-> e.state.height]

\* the type and height of the pending keyboardDid* timers, in order
pendingDid(timers) == [i \in 1..Len(timers) |->
                          [type |-> timers[i].type, height |-> timers[i].state.height]]

\* timers without its i-th element
without(timers, i) == [k \in 1..(Len(timers) - 1) |->
                          IF k < i THEN timers[k] ELSE timers[k + 1]]

\* a step starts a keyboardDid* timer exactly for the keyboardWill* event it
\* emits, and emits a keyboardDid* event exactly by consuming one pending
\* timer of that type and height
C9_OneDidPerWill ==
    [][/\ \A e \in willEvents' :
             pendingDid(didTimers') = Append(pendingDid(didTimers), didTimerOf(e))
       /\ \A e \in didEvents' :
             \E i \in 1..Len(didTimers) :
                 /\ pendingDid(didTimers)[i] = [type |-> e.type, height |-> e.state.height]
                 /\ pendingDid(didTimers') = without(pendingDid(didTimers), i)
       /\ (willEvents' = {} /\ didEvents' = {}) => didTimers' = didTimers
       /\ Cardinality(willEvents') + Cardinality(didEvents') <= 1]_vars

\* the oldest pending keyboardDid* timer is eventually delivered
C9_DidEventually ==
    \A ty \in DidTypes :
        (Len(didTimers) > 0 /\ didTimers[1].type = ty)
            ~> (\E e \in didEvents : e.type = ty)

\* C9: every keyboardWillShow / keyboardWillHide is followed, once its timer
\* runs, by exactly one keyboardDidShow / keyboardDidHide with the same
\* height, and no keyboardDid* is emitted without its keyboardWill*.
C9_WillThenDid == C9_OneDidPerWill /\ C9_DidEventually

\* C9 witness: a keyboardDidShow was just emitted with a visible height
C9_Witness == \E e \in didEvents : e.type = "keyboardDidShow" /\ e.state.height > 50

\* the thresholds of the visibility predicate
threshold(p) == CASE p = "ios" -> 50 [] p = "android" -> 100 [] p = "web" -> 50

\* C10: after every recompute isVisible is TRUE exactly when the height is
\* above the platform threshold (ios 50, android 100, web 50) and an editable
\* element is focused.
C10_VisibilityPredicate ==
    recomputed =>
        (keyboard.isVisible <=>
            (keyboard.height > threshold(platform) /\ isInputElement(activeElement)))

\* C10 witness: android, input focused, height 80 committed and hidden
C10_Witness ==
    /\ recomputed
    /\ platform = "android"
    /\ isInputElement(activeElement)
    /\ keyboard.height = 80
    /\ ~keyboard.isVisible

\* C11: a recompute that runs while no editable element is focused, whatever
\* the viewport and window sizes are, leaves the keyboard hidden and emits no
\* keyboardWillShow.
C11_FocusGating ==
    (recomputed /\ ~isInputElement(activeElement)) =>
        /\ ~keyboard.isVisible
        /\ \A e \in willEvents : e.type # "keyboardWillShow"

\* C11 witness: ios, nothing focused, the visual viewport 500 px shorter (the
\* address bar case the height test alone would take for a keyboard)
C11_Witness ==
    /\ recomputed
    /\ platform = "ios"
    /\ activeElement = "BODY"
    /\ keyboard.height = 500
    /\ ~keyboard.isVisible

\* C12: a listener that throws during dispatch is caught per listener: every
\* listener registered for the event type is still called, no exception
\* leaves emitEvent, and the recompute that dispatched a keyboardWill* event
\* commits the state it calculated, as it does when no listener throws.
C12_ListenerErrorContained ==
    \A i \in 1..Len(emitted) :
        LET e == emitted[i]
        IN  /\ e.called = e.to
            /\ ~e.thrown
            /\ (recomputed /\ e.type \in WillTypes) =>
                  /\ keyboard.isVisible = e.state.isVisible
                  /\ keyboard.height = e.state.height
                  /\ keyboard.target = e.state.target
                  /\ keyboard.type = (IF e.type = "keyboardWillShow"
                                      THEN "opening" ELSE "closing")
                  /\ cssVars # <<>> /\ cssVars.keyboardVisible = e.state.isVisible

\* C12 witness: a recompute dispatched keyboardWillShow to the throwing
\* listener of useKeyboardHandler first and to useKeyboardAnimation's after it
C12_Witness ==
    /\ recomputed
    /\ \E e \in willEvents :
          /\ e.type = "keyboardWillShow"
          /\ e.to = <<"onKeyboardEvent", "handleKeyboardEvent">>
          /\ throws(e.to[1])
          /\ e.called[2] = "handleKeyboardEvent"
    /\ keyboard.isVisible

\* C13: the second and later calls of an unsubscribe function change no
\* listener registration, whatever registry operations (addListener of the
\* same function included) ran since its first call.
C13_UnsubscribeIdempotent ==
    [][\A i \in 1..Len(unsubscribes) :
          (unsubscribes[i].calls >= 1 /\ unsubscribes'[i].calls = unsubscribes[i].calls + 1)
              => listeners' = listeners]_vars

\* C14: what getState(), state() and isVisible() return changes only when a
\* recompute commits: an assignment a consumer makes to an object it was
\* handed changes neither the controller's state nor the state a pending
\* keyboardDid* event will carry.
C14_SnapshotsImmutable ==
    [][ran' # "updateKeyboardState" =>
          /\ currentState' = currentState
          /\ Len(didTimers') = Len(didTimers) =>
                \A i \in 1..Len(didTimers) : didTimers'[i].state = didTimers[i].state]_vars

\* C16: a step that is not a timer callback, so every call of initialize,
\* destroy, dismiss, addListener, removeListener, removeAllListeners,
\* setAnimationConfig, getState, state or isVisible, leaves keyboard,
\* safeArea and availableHeight as they are and dispatches no lifecycle
\* event.
C16_PublicCallsLeaveState ==
    [][ran' = "none" => (currentState' = currentState /\ emitted' = <<>>)]_vars

\* C16 witness: setAnimationConfig and dismiss() were called while the
\* keyboard was shown: the input is blurred and the recompute still pending,
\* the state is the one committed before the calls
C16_Witness ==
    /\ ran = "none"
    /\ emitted = <<>>
    /\ keyboard.isVisible
    /\ keyboard.duration = 250
    /\ configDuration = 300
    /\ ~isInputElement(activeElement)
    /\ debounceTimers = 1

\* the comparison of the spec: isVisible, height and focusedElementId
sameSample(state1, state2) ==
    /\ state1.isVisible = state2.isVisible
    /\ state1.height = state2.height
    /\ state1.target = state2.target

\* C17: a recompute whose calculated isVisible, height and focusedElementId
\* equal the current state's is discarded: it dispatches nothing, leaves the
\* whole controller state (timestamp, duration, phase, safeArea and
\* availableHeight included) and the CSS variables as they are and starts no
\* timer.
C17_UnchangedDiscarded ==
    [][(ran' = "updateKeyboardState"
            /\ sameSample(currentState.keyboard, calculateKeyboardState)) =>
          /\ emitted' = <<>>
          /\ currentState' = currentState
          /\ cssVars' = cssVars
          /\ inlineSafeArea' = inlineSafeArea
          /\ didTimers' = didTimers]_vars

\* C17 witness: a recompute ran after the keyboard opened, at a later time,
\* and was discarded: nothing dispatched, the phase still 'opening', the
\* timestamp still the commit's
C17_Witness ==
    /\ recomputed
    /\ emitted = <<>>
    /\ keyboard.type = "opening"
    /\ keyboard.timestamp < now
    /\ sameSample(keyboard, calculateKeyboardState)


\* C18 as claimed: a recompute after the first commit leaves phase 'stable'
\* only if its sample equals the previous one (the current state's) in
\* isVisible, height and focusedElementId.
C18_StableOnlyWhenUnchanged ==
    [][(ran' = "updateKeyboardState" /\ cssVars # <<>>
            /\ currentState'.keyboard.type = "stable") =>
          sameSample(currentState.keyboard, calculateKeyboardState)]_vars

\* C18 as amended: the phase becomes or stays 'stable' across a change of
\* the state only in a recompute whose sample differs from the previous
\* state in height or focusedElementId and not in isVisible.
C18_StableOnNonFlipCommit ==
    [][(currentState' # currentState /\ currentState'.keyboard.type = "stable") =>
          /\ ran' = "updateKeyboardState"
          /\ UNCHANGED faultVars
          /\ UNCHANGED animVars
          /\ UNCHANGED agentVars
          /\ ~sameSample(currentState.keyboard, currentState'.keyboard)
          /\ currentState'.keyboard.isVisible = currentState.keyboard.isVisible
          /\ sameSample(currentState'.keyboard, calculateKeyboardState)]_vars

\* C18 witness: the keyboard is shown and its phase is 'stable': a commit
\* changed its height while it stayed visible
C18_Witness ==
    /\ recomputed
    /\ keyboard.isVisible
    /\ keyboard.type = "stable"
    /\ emitted = <<>>

\* C19: until the first recompute has run (nothing written back to the CSS
\* variables yet), initialize() called or not, getState() returns the
\* constructed state: a record of keyboard, safeArea and availableHeight
\* with the keyboard hidden, height 0, phase 'stable'.
C19_InitialStateBeforeRecompute ==
    cssVars = <<>> =>
        /\ DOMAIN getState = {"keyboard", "safeArea", "availableHeight"}
        /\ ~getState.keyboard.isVisible
        /\ getState.keyboard.height = 0
        /\ getState.keyboard.type = "stable"
        /\ getState.keyboard.target = 0
        /\ getState.keyboard.timestamp = 0
        /\ getState.availableHeight \in StartHeights

\* C19 witness: before initialize() and before any recompute an input is
\* focused and the visual viewport has shrunk: the queries still return the
\* constructed hidden state
C19_Witness ==
    /\ ~isInitialized
    /\ cssVars = <<>>
    /\ isInputElement(activeElement)
    /\ visualHeight = 300
    /\ ~getState.keyboard.isVisible

\* C20: keyboard.platform is the platform detected at construction, after
\* every recompute, initialize() and destroy(), and in every event's state.
C20_PlatformFixed ==
    /\ keyboard.platform = platform
    /\ \A i \in 1..Len(emitted) : emitted[i].state.platform = platform
    /\ \A i \in 1..Len(didTimers) : didTimers[i].state.platform = platform

\* C20 witness: android, a recompute that ran after destroy() committed the
\* keyboard shown
C20_Witness ==
    /\ recomputed
    /\ ~isInitialized
    /\ platform = "android"
    /\ keyboard.platform = "android"
    /\ keyboard.isVisible

\* C21: when enabling the virtual keyboard API throws during initialize(),
\* initialize() does not throw and the controller ends up initialized with
\* its DOM listeners attached, so that later signals still reach a recompute.
C21_ActivationFailureContained ==
    /\ ~initializeThrew
    /\ domAttached => isInitialized

\* the animation the frames belong to is the show animation of the example:
\* target height 300, duration 250 ms, start height 0
showExample ==
    /\ animation.startHeight = 0
    /\ animation.targetHeight = px(300)
    /\ animation.duration = 250

\* 1 - (1 - t)^3 in thousandths for t = clamp(elapsed / 250, 0, 1), elapsed a
\* multiple of 25 ms: with u = 10 * (1 - t) it is 1000 - u^3
easeOutOf250(elapsed) ==
    LET u == IF elapsed <= 0 THEN 10
             ELSE IF elapsed >= 250 THEN 0
             ELSE (250 - elapsed) \div 25
    IN  1000 - u * u * u

C23_HideProgressFalls ==
    /\ [](requested = "keyboardWillHide" /\ tickTime >= 0
             /\ tickTime - animation.startTime >= animation.duration
          => animationState.progress = 0)
    /\ [][requested' = "keyboardWillHide" /\ tickTime' >= 0 =>
             animationState'.progress <= animationState.progress]_vars

\* the events of a step that reached the mounted hook's handleKeyboardEvent
received(events) ==
    {i \in 1..Len(events) :
        /\ events[i].type \in WillTypes
        /\ \E k \in 1..Len(events[i].called) : events[i].called[k] = "handleKeyboardEvent"}

\* C24: an animation request that arrives while an animation is in flight
\* restarts the interpolation from the height the hook produced last: the
\* new start height is the current animationState.height, not the start or
\* the target of the animation it replaces.
C24_RestartFromCurrentHeight ==
    [][(mounted /\ animation.rafId = "live" /\ received(emitted') # {}) =>
          /\ animation'.rafId = "live"
          /\ animation'.startTime = performanceNow
          /\ animation'.startHeight = animationState.height]_vars

\* C25: a started animation keeps its frame requested until the tick with
\* t = 1, which leaves no frame requested and the height at the target; a
\* new request restarts it, and nothing else, in particular no render or
\* effect run caused by its own ticks, cancels the frame.
C25_AnimationRunsToEnd ==
    [][(animation.rafId = "live" /\ animation'.rafId # "live") =>
          /\ animation'.rafId = "null"
          /\ tickTime' - animation'.startTime >= animation'.duration
          /\ animationState'.height = animation'.targetHeight]_vars

\* C26: the progress of every animation state the interpolator produces
\* lies in [0, 1], for every start height, target height and elapsed time.
C26_ProgressInUnitInterval ==
    tickTime >= 0 => animationState.progress \in 0..1000

\* C26 witness: a tick of an animation shrinking from 500 to 300, whose ratio
\* of current height to target height exceeds 1, produced progress 1
C26_Witness ==
    /\ tickTime >= 0
    /\ tickTime - animation.startTime < animation.duration
    /\ animation.targetHeight > 0
    /\ animationState.height > animation.targetHeight
    /\ animationState.progress = 1000

\* the listeners of the addListener calls calls[i..] for eventType, each once,
\* in the order of its first call; seen are the ones already listed
RECURSIVE firstCalls(_, _, _, _)
firstCalls(calls, i, eventType, seen) ==
    IF i > Len(calls) THEN <<>>
    ELSE IF calls[i].eventType = eventType /\ calls[i].listener \notin seen
    THEN <<calls[i].listener>>
            \o firstCalls(calls, i + 1, eventType, seen \cup {calls[i].listener})
    ELSE firstCalls(calls, i + 1, eventType, seen)

\* C27: the listeners of an event type form a set dispatched in insertion
\* order: every event is delivered once to each function registered for its
\* type, however often it was registered, and to a function registered
\* earlier before one registered later.
C27_SetInInsertionOrder ==
    \A i \in 1..Len(emitted) :
        emitted[i].called = firstCalls(unsubscribes, 1, emitted[i].type, {})

\* C27 witness: an event was delivered to two functions in their order of
\* registration, the first of which had been registered twice
C27_Witness ==
    \E i \in 1..Len(emitted) :
        /\ Len(emitted[i].called) = 2
        /\ Len(SelectSeq(unsubscribes, LAMBDA u :
                  u.eventType = emitted[i].type /\ u.listener = emitted[i].called[1])) = 2

\* a listener of the sample that calls back into the controller was called
\* for one of the events; with name: that listener was
reentered(events) ==
    \E i \in 1..Len(events) : \E k \in 1..Len(events[i].called) :
        events[i].called[k] \in ReentrantListeners

calledBy(events, name) ==
    \E i \in 1..Len(events) : \E k \in 1..Len(events[i].called) :
        events[i].called[k] = name

\* C28: what a listener does during dispatch (dismiss(), addListener,
\* removeListener, getState) starts no nested recompute and no second state
\* mutation: the step dispatches its one event, a recompute commits exactly
\* the sample it took before the dispatch, a keyboardDid* dispatch commits
\* nothing, and the focusout a dismiss() raises leaves a debounced recompute
\* pending for later.
C28_NoNestedRecompute ==
    [][reentered(emitted') =>
          /\ Len(emitted') = 1
          /\ ran' = "updateKeyboardState" =>
                currentState'.keyboard =
                    [calculateKeyboardState EXCEPT
                        !.type = transitionType(currentState.keyboard,
                                                calculateKeyboardState)]
          /\ ran' = "keyboardDid" => currentState' = currentState
          /\ (calledBy(emitted', "callsDismiss") /\ isInputElement(activeElement)) =>
                /\ activeElement' = "BODY"
                /\ debounceTimers' >= 1
                /\ timeoutId' = "live"]_vars

\* C28 witness: a keyboardWillShow listener called dismiss(): the recompute
\* committed the visible keyboard it had sampled, the input is blurred and a
\* recompute is pending
C28_Witness ==
    /\ ran = "updateKeyboardState"
    /\ calledBy(emitted, "callsDismiss")
    /\ currentState.keyboard.isVisible
    /\ activeElement = "BODY"
    /\ debounceTimers >= 1

\* the user agent contains the token
contains(agent, token) == \E i \in 1..Len(agent) : agent[i] = token

\* C29: a user agent containing iPad, iPhone or iPod is classified ios, even
\* if it contains Android too; otherwise one containing Android is android;
\* otherwise it is web; and detectPlatform() of utils/platform returns what
\* the controller's private detector returned.
C29_PlatformClassification ==
    LET apple == contains(userAgent, "iPad") \/ contains(userAgent, "iPhone")
                    \/ contains(userAgent, "iPod")
    IN  /\ apple => currentState.keyboard.platform = "ios"
        /\ ~apple /\ contains(userAgent, "Android")
              => currentState.keyboard.platform = "android"
        /\ ~apple /\ ~contains(userAgent, "Android")
              => currentState.keyboard.platform = "web"
        /\ detected # "none" => detected = currentState.keyboard.platform

\* C29 witness: a user agent with both iPhone and Android was classified ios
\* by both detectors
C29_Witness ==
    /\ contains(userAgent, "iPhone")
    /\ contains(userAgent, "Android")
    /\ detected = "ios"
    /\ currentState.keyboard.platform = "ios"

\* the Android height policy on the environment as it is
androidPolicy ==
    IF hasVirtualKeyboard /\ insetHeight # 0 THEN insetHeight
    ELSE IF hasVisualViewport THEN Max(0, initialViewportHeight - visualHeight)
    ELSE Max(0, initialViewportHeight - innerHeight)

\* C30: on Android a recompute takes the keyboard height from the reported
\* inset when navigator.virtualKeyboard exists and the inset is not zero,
\* else from max(0, initialHeight - visualHeight) when there is a visual
\* viewport, else from max(0, initialHeight - windowHeight), also when the
\* API exists, reports inset 0 and there is no visual viewport.
C30_AndroidHeightPolicy ==
    (platform = "android" /\ ran = "updateKeyboardState")
        => currentState.keyboard.height = androidPolicy

\* the iOS height rule on the environment as it is
iosPolicy ==
    LET visualDiff == Max(0, initialViewportHeight - visualHeight)
        heightDiff == initialViewportHeight - innerHeight
    IN  IF isInputElement(activeElement) /\ visualDiff < 50 /\ heightDiff > 50
        THEN heightDiff
        ELSE visualDiff

\* C31: on ios with a visual viewport a recompute takes the height
\* max(0, initialHeight - visualHeight), except that with an editable
\* element focused, that value below 50 and initialHeight - windowHeight
\* above 50 it takes initialHeight - windowHeight; without focus the
\* correction is never applied.
C31_IosCorrectionPath ==
    (platform = "ios" /\ hasVisualViewport /\ recomputed)
        => keyboard.height = iosPolicy

\* C31 witness: a recompute on ios applied the correction
C31_Witness ==
    /\ platform = "ios" /\ hasVisualViewport /\ recomputed
    /\ isInputElement(activeElement)
    /\ Max(0, initialViewportHeight - visualHeight) < 50
    /\ keyboard.height = initialViewportHeight - innerHeight
    /\ keyboard.height > 50

\* C32: keyboard.height is never negative, on every platform and for every
\* combination of initial height, visual viewport height, window height and
\* reported inset.
C32_HeightNonNegative == keyboard.height >= 0

\* C32 witness: a recompute ran while the viewport it measures was taller
\* than the initial height, and committed or kept the height 0
C32_Witness ==
    /\ recomputed
    /\ keyboard.height = 0
    /\ \/ hasVisualViewport /\ visualHeight > initialViewportHeight
       \/ ~hasVisualViewport /\ ~hasVirtualKeyboard /\ innerHeight > initialViewportHeight

\* C33: initialViewportHeight is the window height at construction and
\* afterwards changes only in the callback of the 500 ms orientation timer,
\* which takes the window height of that moment and schedules a debounced
\* recompute; no recompute, focus, resize or viewport signal changes it.
C33_InitialHeightRecapture ==
    /\ initialViewportHeight = innerHeight
    /\ [][/\ initialViewportHeight' # initialViewportHeight
                => ran' = "orientationRecapture"
          /\ ran' = "orientationRecapture"
                => /\ initialViewportHeight' = innerHeight
                   /\ timeoutId' = "live"
                   /\ debounceTimers' > 0]_vars

\* C33 witness: the orientation callback has just replaced the height
\* captured at construction and left a recompute pending
C33_Witness ==
    /\ ran = "orientationRecapture"
    /\ initialViewportHeight \notin StartHeights
    /\ timeoutId = "live"

\* C34: the mount effect of useKeyboardState initializes a controller that
\* is not initialized: after it ran, the controller is initialized and its
\* environment listeners are attached.
C34_StateHookInitializes ==
    [][(~isInitialized /\ ran' = "useKeyboardState")
          => (isInitialized' /\ domAttached')]_vars

\* C35: initialize() is idempotent while initialized (a further call changes
\* neither the configuration nor the attached environment listeners), after
\* destroy() it attaches them again, and over any sequence of initialize()
\* and destroy() calls every environment signal, the native geometrychange
\* included, has at most one handler attached.
C35_InitializeIdempotent ==
    /\ [](geometryListeners <= 1)
    /\ [][/\ (isInitialized /\ isInitialized')
                => UNCHANGED <<configDuration, domAttached, geometryListeners,
                               overlaysContent>>
          /\ (~isInitialized /\ isInitialized')
                => /\ domAttached'
                   /\ (hasVirtualKeyboard /\ platform = "android")
                         => geometryListeners' >= 1]_vars

\* the keyboardWill* events of a list of events, by type
willTypes(events) ==
    {events[i].type : i \in {j \in 1..Len(events) : events[j].type \in WillTypes}}

\* C36: keyboardWillShow and keyboardWillHide strictly alternate, starting
\* with keyboardWillShow. The committed isVisible is the parity: it starts
\* false, a keyboardWillShow is emitted only by a step that takes it from
\* false to true, a keyboardWillHide only by a step that takes it from true
\* to false, no step emits two of them, and no step flips it without
\* emitting its event.
C36_WillEventsAlternate ==
    /\ ~keyboard.isVisible
    /\ [][/\ "keyboardWillShow" \in willTypes(emitted')
                => (~currentState.keyboard.isVisible /\ currentState'.keyboard.isVisible)
          /\ "keyboardWillHide" \in willTypes(emitted')
                => (currentState.keyboard.isVisible /\ ~currentState'.keyboard.isVisible)
          /\ currentState'.keyboard.isVisible # currentState.keyboard.isVisible
                => Cardinality(willTypes(emitted')) = 1
          /\ Cardinality(willEvents') <= 1]_vars

\* C36 witness: a keyboardWillShow was just emitted by the first commit after
\* a hide transition
C36_Witness ==
    \E e \in willEvents :
        /\ e.type = "keyboardWillShow"
        /\ e.seen.keyboard.type = "closing"
        /\ keyboard.isVisible

\* C37: a keyboardDidShow is delivered only while the current keyboard state
\* is visible and a keyboardDidHide only while it is hidden: the pending
\* keyboardDid* of a transition that the opposite transition superseded is
\* not delivered.
C37_DidMatchesCurrentState ==
    \A e \in didEvents :
        /\ e.type = "keyboardDidShow" => keyboard.isVisible
        /\ e.type = "keyboardDidHide" => ~keyboard.isVisible

\* C38: a recompute that commits a change without flipping isVisible (height
\* or focused element only) replaces the controller state, with phase
\* 'stable', and writes the layout variables back, but emits no lifecycle
\* event and sets no keyboardDid* timer.
C38_SilentStableCommit ==
    [][(/\ ran' = "updateKeyboardState"
        /\ currentState' # currentState
        /\ currentState'.keyboard.isVisible = currentState.keyboard.isVisible)
          => /\ currentState'.keyboard.type = "stable"
             /\ emitted' = <<>>
             /\ didTimers' = didTimers
             /\ cssVars'.keyboardHeight = currentState'.keyboard.height
             /\ cssVars'.keyboardVisible = currentState'.keyboard.isVisible
             /\ cssVars'.availableHeight = currentState'.availableHeight]_vars

\* C38 witness: the last recompute committed another height for a keyboard
\* that stays visible, and wrote it back
C38_Witness ==
    /\ recomputed
    /\ emitted = <<>>
    /\ keyboard.type = "stable"
    /\ keyboard.isVisible
    /\ cssVars # <<>>
    /\ cssVars.keyboardHeight = keyboard.height

\* C39: in every reachable state phase 'opening' implies isVisible and phase
\* 'closing' implies not isVisible.
C39_PhaseAgreesWithVisibility ==
    /\ keyboard.type = "opening" => keyboard.isVisible
    /\ keyboard.type = "closing" => ~keyboard.isVisible

\* C39 witness: the phase is still 'closing', on a hidden keyboard, when the
\* keyboardDidHide of that transition is delivered
C39_Witness ==
    /\ keyboard.type = "closing"
    /\ ~keyboard.isVisible
    /\ \E e \in didEvents : e.type = "keyboardDidHide"

\* C40: after destroy() no lifecycle event is delivered to any listener, a
\* listener registered after destroy() included: the keyboardDid* events of
\* transitions committed before destroy() are not delivered afterwards.
C40_NoDeliveryAfterDestroy ==
    [][~isInitialized =>
          \A i \in 1..Len(emitted') : emitted'[i].called = <<>>]_vars

====
